---- MODULE Spec2Model ----
(***************************************************************************)
(* Model of api/models.py: the module-level startup that builds the        *)
(* FastAPI application handle, the two retrieval-model handles and the     *)
(* generation-engine handle from SETTINGS.                                 *)
(*                                                                         *)
(* Handles are strings: "unbound" (the Python name is not bound), "None",  *)
(* or the name of the class of the constructed object.  Strings of         *)
(* SETTINGS.lora_modules are sequences of one-character strings.           *)
(* The outcome of every import and of every third-party constructor is an  *)
(* input of the step that performs it: the set `fail` names the imports    *)
(* and constructors that raise.                                            *)
(***************************************************************************)
EXTENDS Integers, Sequences, FiniteSets, TLC

VARIABLES SETTINGS, pc, app, EMBEDDING_MODEL, RERANK_MODEL, LLM_ENGINE,
          lora_modules, calls, imports, missing, raised, exc

vars == <<SETTINGS, pc, app, EMBEDDING_MODEL, RERANK_MODEL, LLM_ENGINE,
          lora_modules, calls, imports, missing, raised, exc>>

\* ---------------------------------------------------------------- bounds
MaxLoraLen == 4

Alphabet == {"a", "=", "+", " "}
LoraStrings == UNION {[1..n -> Alphabet] : n \in 0..MaxLoraLen}
TaskNames == {"rag", "llm"}
EngineNames == {"default", "vllm", "llama.cpp", "tgi", "other"}
EmbeddingNames == {"", "m3e"}
RerankNames == {"", "bce"}

\* ------------------------------------------------- Python string helpers
Contains(s, c) == \E i \in 1..Len(s) : s[i] = c

RECURSIVE lstrip(_)
lstrip(s) == IF Len(s) > 0 /\ s[1] = " " THEN lstrip(Tail(s)) ELSE s

RECURSIVE rstrip(_)
rstrip(s) == IF Len(s) > 0 /\ s[Len(s)] = " "
             THEN rstrip(SubSeq(s, 1, Len(s) - 1)) ELSE s

strip(s) == rstrip(lstrip(s))

\* str.split(sep) for a one-character separator: n separators give n+1 items
RECURSIVE split(_, _)
split(s, sep) ==
    IF Contains(s, sep)
    THEN LET i == CHOOSE k \in 1..Len(s) :
                     s[k] = sep /\ \A j \in 1..(k - 1) : s[j] # sep
         IN  <<SubSeq(s, 1, i - 1)>> \o split(SubSeq(s, i + 1, Len(s)), sep)
    ELSE <<s>>

\* --------------------------------------------------- results of a step
\* A step yields: the exception that left it (type "none" when it returned),
\* the handles it returned, and what it did: the calls it made, the imports
\* it attempted, the imports that failed and the calls that raised.
NoExc == [type |-> "none", by |-> ""]

Result(e, v, c, i, m, l) ==
    [exc |-> e, val |-> v, calls |-> c, imports |-> i, missing |-> m, lora |-> l,
     raised |-> IF e.type \in {"Exception", "ValueError"} THEN {e.by} ELSE {}]

\* the loop of lines 131-135: `name, path = item.split("=")` raises
\* ValueError unless the item splits in exactly two parts
RECURSIVE LoraLoop(_, _)
LoraLoop(items, acc) ==
    IF Len(items) = 0
    THEN [raised |-> FALSE, list |-> acc]
    ELSE LET item == Head(items)
         IN  IF Contains(item, "=")
             THEN LET parts == split(item, "=")
                  IN  IF Len(parts) # 2
                      THEN [raised |-> TRUE, list |-> acc]
                      ELSE LoraLoop(Tail(items),
                                    Append(acc, <<parts[1], parts[2]>>))
             ELSE LoraLoop(Tail(items), acc)

BuildLora(s) == LoraLoop(split(strip(s), "+"), <<>>)

RECURSIVE LoraCalls(_)
LoraCalls(n) == IF n = 0 THEN <<>> ELSE <<"LoRA">> \o LoraCalls(n - 1)

\* ------------------------------------------------------------ create_app
create_app(fail) ==
    IF "torch" \in fail
    THEN Result([type |-> "ImportError", by |-> "torch"], <<>>,
                <<"create_app">>, {"torch"}, {"torch"}, <<>>)
    ELSE Result(NoExc, <<"FastAPI">>,
                <<"create_app", "FastAPI">>, {"torch"}, {}, <<>>)

\* ----------------------------------------------------- create_rag_models
RagFailPoints == {"api.rag.RAGEmbedding", "RAGEmbedding",
                  "api.rag.RAGReranker", "RAGReranker"}

\* line 44
RagEnabled(S) == "rag" \in S.tasks /\ S.activate_inference

\* the pair is returned only when both models were constructed
RagReturn_both(rag_models) ==
    IF Len(rag_models) = 2 /\ rag_models[1] # "None" /\ rag_models[2] # "None"
    THEN rag_models ELSE <<"None", "None">>

\* line 59
RagReturn(rag_models) ==
    IF Len(rag_models) = 2 THEN rag_models ELSE <<"None", "None">>

create_rag_models(S, fail) ==
    IF RagEnabled(S)
    THEN
      IF S.embedding_name # "" /\ "api.rag.RAGEmbedding" \in fail
      THEN Result([type |-> "ImportError", by |-> "api.rag.RAGEmbedding"], <<>>,
                  <<"create_rag_models">>,
                  {"api.rag.RAGEmbedding"}, {"api.rag.RAGEmbedding"}, <<>>)
      ELSE IF S.embedding_name # "" /\ "RAGEmbedding" \in fail
      THEN Result([type |-> "Exception", by |-> "RAGEmbedding"], <<>>,
                  <<"create_rag_models", "RAGEmbedding">>,
                  {"api.rag.RAGEmbedding"}, {}, <<>>)
      ELSE
        LET e  == IF S.embedding_name # "" THEN "RAGEmbedding" ELSE "None"
            ec == IF S.embedding_name # "" THEN <<"RAGEmbedding">> ELSE <<>>
            ei == IF S.embedding_name # "" THEN {"api.rag.RAGEmbedding"} ELSE {}
        IN
        IF S.rerank_name # "" /\ "api.rag.RAGReranker" \in fail
        THEN Result([type |-> "ImportError", by |-> "api.rag.RAGReranker"], <<>>,
                    <<"create_rag_models">> \o ec,
                    ei \cup {"api.rag.RAGReranker"}, {"api.rag.RAGReranker"}, <<>>)
        ELSE IF S.rerank_name # "" /\ "RAGReranker" \in fail
        THEN Result([type |-> "Exception", by |-> "RAGReranker"], <<>>,
                    <<"create_rag_models">> \o ec \o <<"RAGReranker">>,
                    ei \cup {"api.rag.RAGReranker"}, {}, <<>>)
        ELSE
          LET r  == IF S.rerank_name # "" THEN "RAGReranker" ELSE "None"
              rc == IF S.rerank_name # "" THEN <<"RAGReranker">> ELSE <<>>
              ri == IF S.rerank_name # "" THEN {"api.rag.RAGReranker"} ELSE {}
              rag_models == <<e, r>>
          IN  Result(NoExc,
                     RagReturn(rag_models),
                     <<"create_rag_models">> \o ec \o rc, ei \cup ri, {}, <<>>)
    ELSE Result(NoExc, RagReturn(<<>>), <<"create_rag_models">>, {}, {}, <<>>)

\* --------------------------------------------------------- create_hf_llm
HfFailPoints == {"api.core.default", "load_model_and_tokenizer"}

\* a load failure is swallowed and a null engine returned
create_hf_llm_catch(S, fail) ==
    IF "api.core.default" \in fail
    THEN Result([type |-> "ImportError", by |-> "api.core.default"], <<>>,
                <<"create_hf_llm">>, {"api.core.default"}, {"api.core.default"}, <<>>)
    ELSE IF "load_model_and_tokenizer" \in fail
    THEN [Result(NoExc, <<"None">>,
                 <<"create_hf_llm", "load_model_and_tokenizer">>,
                 {"api.core.default"}, {}, <<>>)
            EXCEPT !.raised = {"load_model_and_tokenizer"}]
    ELSE Result(NoExc, <<"DefaultEngine">>,
                <<"create_hf_llm", "load_model_and_tokenizer", "DefaultEngine">>,
                {"api.core.default"}, {}, <<>>)

\* the imports are wrapped in try/except ImportError: return None
create_hf_llm_guarded(S, fail) ==
    IF "api.core.default" \in fail
    THEN Result(NoExc, <<"None">>,
                <<"create_hf_llm">>, {"api.core.default"}, {"api.core.default"}, <<>>)
    ELSE IF "load_model_and_tokenizer" \in fail
    THEN Result([type |-> "Exception", by |-> "load_model_and_tokenizer"], <<>>,
                <<"create_hf_llm", "load_model_and_tokenizer">>,
                {"api.core.default"}, {}, <<>>)
    ELSE Result(NoExc, <<"DefaultEngine">>,
                <<"create_hf_llm", "load_model_and_tokenizer", "DefaultEngine">>,
                {"api.core.default"}, {}, <<>>)

create_hf_llm(S, fail) ==
    IF "api.core.default" \in fail
    THEN Result([type |-> "ImportError", by |-> "api.core.default"], <<>>,
                <<"create_hf_llm">>, {"api.core.default"}, {"api.core.default"}, <<>>)
    ELSE IF "load_model_and_tokenizer" \in fail
    THEN Result([type |-> "Exception", by |-> "load_model_and_tokenizer"], <<>>,
                <<"create_hf_llm", "load_model_and_tokenizer">>,
                {"api.core.default"}, {}, <<>>)
    ELSE Result(NoExc, <<"DefaultEngine">>,
                <<"create_hf_llm", "load_model_and_tokenizer", "DefaultEngine">>,
                {"api.core.default"}, {}, <<>>)

\* ---------------------------------------------------- create_vllm_engine
VllmFailPoints == {"vllm", "AsyncLLMEngine.from_engine_args"}

create_vllm_engine(S, fail) ==
    IF "vllm" \in fail
    THEN Result(NoExc, <<"None">>, <<"create_vllm_engine">>, {"vllm"}, {"vllm"}, <<>>)
    ELSE IF "AsyncLLMEngine.from_engine_args" \in fail
    THEN Result([type |-> "Exception", by |-> "AsyncLLMEngine.from_engine_args"], <<>>,
                <<"create_vllm_engine", "AsyncLLMEngine.from_engine_args">>,
                {"vllm"}, {}, <<>>)
    ELSE LET l == BuildLora(S.lora_modules)
             c == <<"create_vllm_engine", "AsyncLLMEngine.from_engine_args">>
                    \o LoraCalls(Len(l.list))
         IN  IF l.raised
             THEN Result([type |-> "ValueError", by |-> "item.split"], <<>>,
                         c, {"vllm"}, {}, l.list)
             ELSE Result(NoExc, <<"VllmEngine">>, c \o <<"VllmEngine">>,
                         {"vllm"}, {}, l.list)

\* ----------------------------------------------- create_llama_cpp_engine
LlamaFailPoints == {"llama_cpp", "Llama"}

\* the ImportError is not caught
create_llama_cpp_engine_reraise(S, fail) ==
    IF "llama_cpp" \in fail
    THEN Result([type |-> "ImportError", by |-> "llama_cpp"], <<>>,
                <<"create_llama_cpp_engine">>, {"llama_cpp"}, {"llama_cpp"}, <<>>)
    ELSE IF "Llama" \in fail
    THEN Result([type |-> "Exception", by |-> "Llama"], <<>>,
                <<"create_llama_cpp_engine", "Llama">>, {"llama_cpp"}, {}, <<>>)
    ELSE Result(NoExc, <<"LlamaCppEngine">>,
                <<"create_llama_cpp_engine", "Llama", "LlamaCppEngine">>,
                {"llama_cpp"}, {}, <<>>)

create_llama_cpp_engine(S, fail) ==
    IF "llama_cpp" \in fail
    THEN Result(NoExc, <<"None">>, <<"create_llama_cpp_engine">>,
                {"llama_cpp"}, {"llama_cpp"}, <<>>)
    ELSE IF "Llama" \in fail
    THEN Result([type |-> "Exception", by |-> "Llama"], <<>>,
                <<"create_llama_cpp_engine", "Llama">>, {"llama_cpp"}, {}, <<>>)
    ELSE Result(NoExc, <<"LlamaCppEngine">>,
                <<"create_llama_cpp_engine", "Llama", "LlamaCppEngine">>,
                {"llama_cpp"}, {}, <<>>)

\* ----------------------------------------------------- create_tgi_engine
TgiFailPoints == {"text_generation", "AsyncClient"}

\* on ImportError the llama.cpp engine is tried as a fallback
create_tgi_engine_fallback(S, fail) ==
    IF "text_generation" \in fail
    THEN LET r == create_llama_cpp_engine(S, {})
         IN  Result(r.exc, r.val, <<"create_tgi_engine">> \o r.calls,
                    {"text_generation"} \cup r.imports,
                    {"text_generation"} \cup r.missing, <<>>)
    ELSE IF "AsyncClient" \in fail
    THEN Result([type |-> "Exception", by |-> "AsyncClient"], <<>>,
                <<"create_tgi_engine", "AsyncClient">>, {"text_generation"}, {}, <<>>)
    ELSE Result(NoExc, <<"TGIEngine">>,
                <<"create_tgi_engine", "AsyncClient", "TGIEngine">>,
                {"text_generation"}, {}, <<>>)

create_tgi_engine(S, fail) ==
    IF "text_generation" \in fail
    THEN Result(NoExc, <<"None">>, <<"create_tgi_engine">>,
                {"text_generation"}, {"text_generation"}, <<>>)
    ELSE IF "AsyncClient" \in fail
    THEN Result([type |-> "Exception", by |-> "AsyncClient"], <<>>,
                <<"create_tgi_engine", "AsyncClient">>, {"text_generation"}, {}, <<>>)
    ELSE Result(NoExc, <<"TGIEngine">>,
                <<"create_tgi_engine", "AsyncClient", "TGIEngine">>,
                {"text_generation"}, {}, <<>>)

\* --------------------------------------------------- module-level startup
Init ==
    /\ SETTINGS \in [tasks : SUBSET TaskNames,
                     activate_inference : BOOLEAN,
                     engine : EngineNames,
                     embedding_name : EmbeddingNames,
                     rerank_name : RerankNames,
                     lora_modules : LoraStrings]
    /\ pc = "app"
    /\ app = "unbound"
    /\ EMBEDDING_MODEL = "unbound"
    /\ RERANK_MODEL = "unbound"
    /\ LLM_ENGINE = "unbound"
    /\ lora_modules = <<>>
    /\ calls = <<>>
    /\ imports = {}
    /\ missing = {}
    /\ raised = {}
    /\ exc = NoExc

\* what every module-level statement does with the step it runs
Log(r) ==
    /\ calls' = calls \o r.calls
    /\ imports' = imports \cup r.imports
    /\ missing' = missing \cup r.missing
    /\ raised' = raised \cup r.raised
    /\ exc' = r.exc
    /\ lora_modules' = r.lora

\* line 191
CreateApp ==
    /\ pc = "app"
    /\ \E fail \in SUBSET {"torch"} :
         LET r == create_app(fail)
         IN  /\ Log(r)
             /\ IF r.exc.type = "none"
                THEN app' = r.val[1] /\ pc' = "rag"
                ELSE app' = app /\ pc' = "failed"
    /\ UNCHANGED <<SETTINGS, EMBEDDING_MODEL, RERANK_MODEL, LLM_ENGINE>>

\* create_rag_models() is evaluated once per unpacked name
CreateRagModels_twice ==
    /\ pc = "rag"
    /\ \E fail \in SUBSET RagFailPoints :
         LET r == create_rag_models(SETTINGS, fail)
         IN  /\ calls' = calls \o r.calls \o r.calls
             /\ imports' = imports \cup r.imports
             /\ missing' = missing \cup r.missing
             /\ raised' = raised \cup r.raised
             /\ exc' = r.exc
             /\ lora_modules' = r.lora
             /\ IF r.exc.type = "none"
                THEN /\ EMBEDDING_MODEL' = r.val[1]
                     /\ RERANK_MODEL' = r.val[2]
                     /\ pc' = "llm"
                ELSE /\ UNCHANGED <<EMBEDDING_MODEL, RERANK_MODEL>>
                     /\ pc' = "failed"
    /\ UNCHANGED <<SETTINGS, app, LLM_ENGINE>>

\* line 194
CreateRagModels ==
    /\ pc = "rag"
    /\ \E fail \in SUBSET RagFailPoints :
         LET r == create_rag_models(SETTINGS, fail)
         IN  /\ Log(r)
             /\ IF r.exc.type = "none"
                THEN /\ EMBEDDING_MODEL' = r.val[1]
                     /\ RERANK_MODEL' = r.val[2]
                     /\ pc' = "llm"
                ELSE /\ UNCHANGED <<EMBEDDING_MODEL, RERANK_MODEL>>
                     /\ pc' = "failed"
    /\ UNCHANGED <<SETTINGS, app, LLM_ENGINE>>

LlmEnabled_noflag == "llm" \in SETTINGS.tasks

\* line 197
LlmEnabled == "llm" \in SETTINGS.tasks /\ SETTINGS.activate_inference

\* the assignment LLM_ENGINE = <step>() of lines 199, 201, 203, 205
BindEngine(r) ==
    /\ Log(r)
    /\ IF r.exc.type = "none"
       THEN LLM_ENGINE' = r.val[1] /\ pc' = "done"
       ELSE LLM_ENGINE' = LLM_ENGINE /\ pc' = "failed"
    /\ UNCHANGED <<SETTINGS, app, EMBEDDING_MODEL, RERANK_MODEL>>

\* lines 198-199
DefaultBranch ==
    /\ pc = "llm" /\ LlmEnabled
    /\ SETTINGS.engine = "default"
    /\ \E fail \in SUBSET HfFailPoints : BindEngine(create_hf_llm(SETTINGS, fail))

\* lines 200-201
VllmBranch ==
    /\ pc = "llm" /\ LlmEnabled
    /\ SETTINGS.engine = "vllm"
    /\ \E fail \in SUBSET VllmFailPoints : BindEngine(create_vllm_engine(SETTINGS, fail))

\* lines 202-203
LlamaCppBranch ==
    /\ pc = "llm" /\ LlmEnabled
    /\ SETTINGS.engine = "llama.cpp"
    /\ \E fail \in SUBSET LlamaFailPoints :
         BindEngine(create_llama_cpp_engine(SETTINGS, fail))

\* the tgi branch calls the llama.cpp step
TgiBranch_llama ==
    /\ pc = "llm" /\ LlmEnabled
    /\ SETTINGS.engine = "tgi"
    /\ \E fail \in SUBSET LlamaFailPoints :
         BindEngine(create_llama_cpp_engine(SETTINGS, fail))

\* lines 204-205
TgiBranch ==
    /\ pc = "llm" /\ LlmEnabled
    /\ SETTINGS.engine = "tgi"
    /\ \E fail \in SUBSET TgiFailPoints : BindEngine(create_tgi_engine(SETTINGS, fail))

\* lines 197-205 when no elif matches: nothing is assigned
NoBranch ==
    /\ pc = "llm" /\ LlmEnabled
    /\ SETTINGS.engine \notin {"default", "vllm", "llama.cpp", "tgi"}
    /\ pc' = "done"
    /\ UNCHANGED <<SETTINGS, app, EMBEDDING_MODEL, RERANK_MODEL, LLM_ENGINE,
                   lora_modules, calls, imports, missing, raised, exc>>

\* lines 206-207
ElseBranch ==
    /\ pc = "llm" /\ ~LlmEnabled
    /\ LLM_ENGINE' = "None"
    /\ pc' = "done"
    /\ UNCHANGED <<SETTINGS, app, EMBEDDING_MODEL, RERANK_MODEL,
                   lora_modules, calls, imports, missing, raised, exc>>

Next ==
    \/ CreateApp
    \/ CreateRagModels
    \/ DefaultBranch
    \/ VllmBranch
    \/ LlamaCppBranch
    \/ TgiBranch
    \/ NoBranch
    \/ ElseBranch

Spec == Init /\ [][Next]_vars

\* ================================================================ claims
Invoked == {calls[i] : i \in DOMAIN calls}
Count(name) == Cardinality({i \in DOMAIN calls : calls[i] = name})
CountIn(names) == Cardinality({i \in DOMAIN calls : calls[i] \in names})

EngineSteps == {"create_hf_llm", "create_vllm_engine",
                "create_llama_cpp_engine", "create_tgi_engine"}
EngineWrappers == {"DefaultEngine", "VllmEngine", "LlamaCppEngine", "TGIEngine"}
EngineBackends == {"load_model_and_tokenizer", "AsyncLLMEngine.from_engine_args",
                   "Llama", "AsyncClient"}
RagCtors == {"RAGEmbedding", "RAGReranker"}
AltLibs == {"vllm", "llama_cpp", "text_generation"}
KnownEngines == {"default", "vllm", "llama.cpp", "tgi"}

StepOf(e) == CASE e = "default"   -> "create_hf_llm"
               [] e = "vllm"      -> "create_vllm_engine"
               [] e = "llama.cpp" -> "create_llama_cpp_engine"
               [] e = "tgi"       -> "create_tgi_engine"
LibOf(e) == CASE e = "default"   -> "api.core.default"
              [] e = "vllm"      -> "vllm"
              [] e = "llama.cpp" -> "llama_cpp"
              [] e = "tgi"       -> "text_generation"
WrapperOf(e) == CASE e = "default"   -> "DefaultEngine"
                  [] e = "vllm"      -> "VllmEngine"
                  [] e = "llama.cpp" -> "LlamaCppEngine"
                  [] e = "tgi"       -> "TGIEngine"

LlmOn == "llm" \in SETTINGS.tasks /\ SETTINGS.activate_inference
RagOn == "rag" \in SETTINGS.tasks /\ SETTINGS.activate_inference
\* create_rag_models has returned
RagReturned == pc \in {"llm", "done"} \/ (pc = "failed" /\ Invoked \cap EngineSteps # {})

\* C1: with "llm" in tasks, activate_inference true and one of the four known
\* engine names, startup invokes no engine step but the matching one, at most
\* once; when startup completes it was invoked exactly once and LLM_ENGINE is
\* what it returned (its engine object, or None when its library is missing).
C1_MatchingEngineSelected ==
    (LlmOn /\ SETTINGS.engine \in KnownEngines) =>
        /\ Invoked \cap EngineSteps \subseteq {StepOf(SETTINGS.engine)}
        /\ Count(StepOf(SETTINGS.engine)) <= 1
        /\ pc = "done" =>
             /\ Count(StepOf(SETTINGS.engine)) = 1
             /\ LLM_ENGINE = IF LibOf(SETTINGS.engine) \in missing
                             THEN "None" ELSE WrapperOf(SETTINGS.engine)

C1_Witness ==
    /\ pc = "done" /\ LlmOn /\ SETTINGS.engine = "tgi"
    /\ LLM_ENGINE = "TGIEngine" /\ Count("create_tgi_engine") = 1

\* C2: when the optional library of an alternate engine (vllm, llama.cpp,
\* tgi) cannot be imported, its step returns None without raising and without
\* calling a third-party constructor; startup completes with LLM_ENGINE None.
C2_MissingLibraryGivesNone ==
    (missing \cap AltLibs # {}) =>
        /\ exc.type = "none"
        /\ pc = "done"
        /\ LLM_ENGINE = "None"
        /\ Invoked \cap (EngineBackends \cup EngineWrappers \cup {"LoRA"}) = {}

C2_Witness ==
    /\ "llama_cpp" \in missing /\ pc = "done"
    /\ "create_llama_cpp_engine" \in Invoked

\* C3 as stated: create_rag_models returns [None, None] in every
\* configuration except "rag" in tasks, activate_inference true and both
\* embedding_name and rerank_name set.
C3_Original ==
    (RagReturned /\ ~(RagOn /\ SETTINGS.embedding_name # ""
                            /\ SETTINGS.rerank_name # "")) =>
        (EMBEDDING_MODEL = "None" /\ RERANK_MODEL = "None")

\* C3 amended: when create_rag_models returns, each handle is decided by its
\* own name: EMBEDDING_MODEL is a RAGEmbedding exactly when "rag" is in tasks,
\* activate_inference is true and embedding_name is set, and None otherwise;
\* RERANK_MODEL likewise with rerank_name.  The pair is [None, None] exactly
\* when "rag" is off, inference is off, or both names are unset.
C3_EachHandlePerOwnName ==
    RagReturned =>
        /\ EMBEDDING_MODEL = IF RagOn /\ SETTINGS.embedding_name # ""
                             THEN "RAGEmbedding" ELSE "None"
        /\ RERANK_MODEL = IF RagOn /\ SETTINGS.rerank_name # ""
                          THEN "RAGReranker" ELSE "None"

C3_Witness ==
    /\ RagReturned /\ RagOn
    /\ SETTINGS.embedding_name # "" /\ SETTINGS.rerank_name = ""
    /\ EMBEDDING_MODEL = "RAGEmbedding" /\ RERANK_MODEL = "None"

\* C4: in every configuration a startup run invokes at most one of the four
\* engine steps, at most once, and at most one engine object (backend and
\* wrapper) is constructed.
C4_AtMostOneEngine ==
    /\ CountIn(EngineSteps) <= 1
    /\ CountIn(EngineBackends) <= 1
    /\ CountIn(EngineWrappers) <= 1
    /\ LLM_ENGINE \in EngineWrappers => CountIn(EngineWrappers) = 1

C4_Witness ==
    /\ pc = "done" /\ LLM_ENGINE = "VllmEngine"
    /\ CountIn(EngineSteps) = 1 /\ CountIn(EngineWrappers) = 1

\* C5: when a third-party constructor or loader raises, the exception leaves
\* the step: startup has failed with that exception at that call (it is the
\* last call made, and it was made once), the handles the step was building
\* stay unbound, no engine step follows a failed retrieval step, and nothing
\* is attempted after the failure (no retry, no fallback).
C5_ErrorsAbortStartup ==
    [][ /\ \A c \in raised' \cap (EngineBackends \cup RagCtors) :
             /\ exc' = [type |-> "Exception", by |-> c]
             /\ pc' = "failed"
             /\ calls'[Len(calls')] = c
             /\ Cardinality({i \in DOMAIN calls' : calls'[i] = c}) = 1
             /\ LLM_ENGINE' = "unbound"
             /\ (c \in RagCtors =>
                   /\ EMBEDDING_MODEL' = "unbound" /\ RERANK_MODEL' = "unbound"
                   /\ Invoked' \cap EngineSteps = {})
        /\ (pc = "failed") => (calls' = calls /\ imports' = imports) ]_vars

C5_Witness ==
    /\ pc = "failed" /\ "load_model_and_tokenizer" \in raised
    /\ exc.by = "load_model_and_tokenizer" /\ LLM_ENGINE = "unbound"

\* C6 as stated: every create_* step, create_rag_models and create_hf_llm
\* included, yields null handles instead of raising when an import it
\* performs fails.
C6_Original ==
    (missing \ {"torch"} # {}) => (exc.type = "none" /\ pc # "failed")

\* C6 amended: only the three alternate engine steps (create_vllm_engine,
\* create_llama_cpp_engine, create_tgi_engine) turn a failed import into a
\* null handle; in create_rag_models and create_hf_llm a failed import raises
\* ImportError, which fails startup and leaves the handles of that step
\* unbound.
C6_OnlyAlternateEnginesDegrade ==
    /\ \A lib \in missing \cap AltLibs : exc.type = "none" /\ LLM_ENGINE = "None"
    /\ \A lib \in missing \ (AltLibs \cup {"torch"}) :
          /\ exc = [type |-> "ImportError", by |-> lib]
          /\ pc = "failed"
          /\ LLM_ENGINE = "unbound"
          /\ lib # "api.core.default" =>
               (EMBEDDING_MODEL = "unbound" /\ RERANK_MODEL = "unbound")

C6_Witness ==
    /\ "api.core.default" \in missing
    /\ pc = "failed" /\ exc.type = "ImportError"

\* C7: the steps run in the order create_app, create_rag_models, then at most
\* one engine step, none of them twice, and a handle once bound is never
\* assigned again.
TopLevel == {"create_app", "create_rag_models"} \cup EngineSteps
TopCalls == SelectSeq(calls, LAMBDA c : c \in TopLevel)
OrderOK ==
    /\ Len(TopCalls) <= 3
    /\ Len(TopCalls) >= 1 => TopCalls[1] = "create_app"
    /\ Len(TopCalls) >= 2 => TopCalls[2] = "create_rag_models"
    /\ Len(TopCalls) >= 3 => TopCalls[3] \in EngineSteps
    /\ (Invoked \cap EngineSteps # {}) => EMBEDDING_MODEL # "unbound"

C7_OnceInFixedOrder ==
    [][ /\ OrderOK'
        /\ app # "unbound" => app' = app
        /\ EMBEDDING_MODEL # "unbound" => EMBEDDING_MODEL' = EMBEDDING_MODEL
        /\ RERANK_MODEL # "unbound" => RERANK_MODEL' = RERANK_MODEL
        /\ LLM_ENGINE # "unbound" => LLM_ENGINE' = LLM_ENGINE ]_vars

C7_Witness ==
    /\ pc = "done"
    /\ TopCalls = <<"create_app", "create_rag_models", "create_llama_cpp_engine">>
    /\ EMBEDDING_MODEL = "RAGEmbedding" /\ LLM_ENGINE = "LlamaCppEngine"

\* C8: whenever startup completes without an exception LLM_ENGINE is bound,
\* to None or to an engine object, also when "llm" is in tasks, inference is
\* active and the engine name is none of the four known ones.
C8_EngineBoundAtEnd ==
    pc = "done" => LLM_ENGINE \in {"None"} \cup EngineWrappers

\* C9: with activate_inference false startup constructs nothing but the
\* application handle: no retrieval-model or engine constructor is invoked,
\* no optional import is attempted, and when startup completes the three
\* model handles are None.
C9_InactiveConstructsNothing ==
    ~SETTINGS.activate_inference =>
        /\ Invoked \subseteq {"create_app", "FastAPI", "create_rag_models"}
        /\ imports \subseteq {"torch"}
        /\ pc = "done" =>
             /\ EMBEDDING_MODEL = "None"
             /\ RERANK_MODEL = "None"
             /\ LLM_ENGINE = "None"

C9_Witness ==
    /\ ~SETTINGS.activate_inference /\ pc = "done"
    /\ SETTINGS.tasks = {"rag", "llm"} /\ SETTINGS.engine = "vllm"
    /\ SETTINGS.embedding_name # "" /\ LLM_ENGINE = "None"

\* C10: in create_vllm_engine, for every SETTINGS.lora_modules the list
\* passed to VllmEngine has one LoRA entry per "+"-separated item containing
\* "=", and building the list never raises.
ItemsWithEq(s) ==
    LET items == split(strip(s), "+")
    IN  Cardinality({i \in DOMAIN items : Contains(items[i], "=")})

C10_LoraListNeverRaises ==
    ("AsyncLLMEngine.from_engine_args" \in Invoked /\ exc.by # "AsyncLLMEngine.from_engine_args") =>
        /\ exc.type = "none"
        /\ LLM_ENGINE = "VllmEngine"
        /\ Len(lora_modules) = ItemsWithEq(SETTINGS.lora_modules)

====
